---- MODULE Spec2Model ----
(***************************************************************************)
(* Binance futures quant dashboard: the tick store (storage/db.py), the    *)
(* bar resampler (storage/db.py) and the per-symbol stream ingestor        *)
(* (ingestion/binance_ws.py), as state machines.                           *)
(*                                                                         *)
(* Time is in milliseconds since the epoch.  NaN stands for a float that   *)
(* is not a number: SQLite stores it as NULL and pandas reads NULL back as *)
(* NaN, so one value models both.  None is Python's None / SQL NULL in a   *)
(* string column.                                                          *)
(***************************************************************************)
EXTENDS Integers, Sequences, FiniteSets, TLC

VARIABLES
    ticks,      \* table "ticks": committed rows, in rowid order
    bars,       \* table "bars": committed rows, in rowid order
    db_lock,    \* _db_lock: the thread holding it, or Free
    pc,         \* per thread: where it is in its code
    args,       \* per thread: the arguments of the call it is running
    rows,       \* per thread: rows read by get_ticks (q.all())
    result,     \* per thread: the value its last call returned
    cutoff,     \* per thread: the cutoff its get_ticks computed
    session,    \* per thread: objects added to its session, not yet committed
    returned,   \* history: the ticks whose insert_tick call has returned
    seen,       \* history, per caller: `returned` when its get_ticks call started
    calls,      \* history: the number of resample_ticks_to_bars calls made
    ingestor_instance,  \* _ingestor_instance: None or an ingestor
    ingestors,  \* the BinanceFuturesTickIngestor objects, by the caller that made them
    spawned,    \* history: the threads start() has started, in order
    start_frame \* per caller: self and the loop position of the start() it runs

ingestVars == <<ingestor_instance, ingestors, spawned, start_frame>>
storeVars == <<ticks, bars, db_lock, rows, cutoff, session, returned, seen, calls>>

vars == <<ticks, bars, db_lock, pc, args, rows, cutoff, result, session,
          returned, seen, calls, ingestVars>>

----------------------------------------------------------------------------
(* Values *)

None == "None"
Free == "Free"
NoArgs == [op |-> "none"]
NoResult == [kind |-> "none"]
\* the call ended with an exception
Raised == [kind |-> "raised"]
NaN == -1
\* a string float() does not accept, such as "abc"
NotNumber == -2
\* no ingestor object made by this caller
NotCreated == [created |-> FALSE, symbols |-> <<>>, running |-> FALSE, threads |-> <<>>]
NoFrame == [self |-> None, i |-> 0, t |-> 0]

AVAILABLE_SYMBOLS == <<"BTCUSDT", "ETHUSDT", "BNBUSDT">>
\* the select boxes' defaults: Symbol 1 is index 0, Symbol 2 is index 1
DefaultPair == <<AVAILABLE_SYMBOLS[1], AVAILABLE_SYMBOLS[2]>>

Range(s) == {s[i] : i \in DOMAIN s}

\* milliseconds in a day: Timestamp.normalize() cuts to a multiple of it
DayMs == 86400000

\* the timeframes the dashboard offers
Timeframes == {"1s", "1m", "5m"}

----------------------------------------------------------------------------
(* get_ticks: the query *)

\* cutoff = datetime.utcnow() - timedelta(minutes=minutes_back)
Cutoff(clock, minutes_back) == clock - minutes_back * 60000

\* session.query(Tick).filter(Tick.symbol.in_(symbols)).filter(Tick.ts >= cutoff).all()
\* A NULL symbol matches no IN list.  Rows come back in rowid order.
QueryRows(table, symbols, since) ==
    SelectSeq(table, LAMBDA r : r.symbol # None /\ r.symbol \in Range(symbols)
                                /\ r.ts >= since)

\* The query has no ORDER BY: the rows come in the order of the access path
\* SQLite takes, which is the table (rowid order), the index on symbol (symbol
\* order, rowid order within a symbol) or the index on ts (ts order, rowid
\* order within a timestamp).
Plans == {"scan", "ix_ticks_symbol", "ix_ticks_ts"}

\* the symbols in the order the index on symbol keeps them
SortedSymbols == <<"BNBUSDT", "BTCUSDT", "ETHUSDT">>

RECURSIVE BySymbol(_, _)
BySymbol(found, syms) ==
    IF syms = <<>> THEN <<>>
    ELSE SelectSeq(found, LAMBDA r : r.symbol = Head(syms)) \o BySymbol(found, Tail(syms))

RECURSIVE InsertTs(_, _)
InsertTs(sorted, r) ==
    IF sorted = <<>> THEN <<r>>
    ELSE IF sorted[Len(sorted)].ts <= r.ts THEN Append(sorted, r)
    ELSE Append(InsertTs(SubSeq(sorted, 1, Len(sorted) - 1), r), sorted[Len(sorted)])

RECURSIVE ByTs(_)
ByTs(found) ==
    IF found = <<>> THEN <<>>
    ELSE InsertTs(ByTs(SubSeq(found, 1, Len(found) - 1)), found[Len(found)])

\* q.all(): the rows found, in the order of the access path
PlanOrder(found, plan) ==
    CASE plan = "scan" -> found
      [] plan = "ix_ticks_symbol" -> BySymbol(found, SortedSymbols)
      [] plan = "ix_ticks_ts" -> ByTs(found)

----------------------------------------------------------------------------
(* resample_ticks_to_bars: the computation between the two critical sections *)

\* freq_map.get(timeframe, "1T")
FreqAlias(timeframe) ==
    CASE timeframe = "1s" -> "1S"
      [] timeframe = "1m" -> "1T"
      [] timeframe = "5m" -> "5T"
      [] OTHER -> "1T"

\* the length of a pandas offset alias, in milliseconds
FreqMs(alias) ==
    CASE alias = "1S" -> 1000
      [] alias = "1T" -> 60000
      [] alias = "5T" -> 300000

\* resample() sorts a frame whose index is not increasing, with a stable sort
RECURSIVE InsertByTs(_, _)
InsertByTs(sorted, r) ==
    IF sorted = <<>> THEN <<r>>
    ELSE IF sorted[Len(sorted)].ts <= r.ts THEN Append(sorted, r)
    ELSE Append(InsertByTs(SubSeq(sorted, 1, Len(sorted) - 1), r), sorted[Len(sorted)])

\* no sort at all: the rows as the query gave them
Unsorted(s) == s

RECURSIVE SortByTs(_)
SortByTs(s) ==
    IF s = <<>> THEN <<>>
    ELSE InsertByTs(SortByTs(SubSeq(s, 1, Len(s) - 1)), s[Len(s)])

Prices(g) == [i \in DOMAIN g |-> g[i].price]
Qtys(g) == [i \in DOMAIN g |-> g[i].qty]

\* the aggregations skip missing values; of no value at all they give NaN
DropNa(v) == SelectSeq(v, LAMBDA x : x # NaN)
AggFirst(v) == IF DropNa(v) = <<>> THEN NaN ELSE DropNa(v)[1]
AggLast(v) == IF DropNa(v) = <<>> THEN NaN ELSE DropNa(v)[Len(DropNa(v))]
AggMax(v) ==
    IF DropNa(v) = <<>> THEN NaN
    ELSE CHOOSE x \in Range(DropNa(v)) : \A y \in Range(DropNa(v)) : y <= x
AggMin(v) ==
    IF DropNa(v) = <<>> THEN NaN
    ELSE CHOOSE x \in Range(DropNa(v)) : \A y \in Range(DropNa(v)) : x <= y

\* sum() of no value is 0
RECURSIVE SumSeq(_)
SumSeq(v) == IF v = <<>> THEN 0 ELSE v[1] + SumSeq(Tail(v))
AggSum(v) == SumSeq(DropNa(v))

\* origin="start_day": bins are counted from midnight of the first row's day
DayStart(ts) == ts - (ts % DayMs)
BinOf(ts, origin, freq) == origin + ((ts - origin) \div freq) * freq

\* the rows of one bin [b, b + freq)
Group(srt, b, freq) == SelectSeq(srt, LAMBDA r : b <= r.ts /\ r.ts < b + freq)

\* one row of ohlc.join(vol), with the symbol column
MergedRow(srt, b, freq, sym) ==
    [symbol |-> sym, ts |-> b,
     open   |-> AggFirst(Prices(Group(srt, b, freq))),
     high   |-> AggMax(Prices(Group(srt, b, freq))),
     low    |-> AggMin(Prices(Group(srt, b, freq))),
     close  |-> AggLast(Prices(Group(srt, b, freq))),
     volume |-> AggSum(Qtys(Group(srt, b, freq)))]

\* merged.dropna(subset=["open", "high", "low", "close"])
DropNaRows(merged) ==
    SelectSeq(merged, LAMBDA m : m.open # NaN /\ m.high # NaN
                                 /\ m.low # NaN /\ m.close # NaN)

\* the body of the loop for one symbol with a non-empty sub-frame:
\* every bin from the first row's to the last row's, then dropna
ResampleSymbol(sub, freq, sym) ==
    LET srt == SortByTs(sub)
        origin == DayStart(srt[1].ts)
        lo == BinOf(srt[1].ts, origin, freq)
        hi == BinOf(srt[Len(srt)].ts, origin, freq)
        merged == [k \in 1..((hi - lo) \div freq + 1) |->
                      MergedRow(srt, lo + (k - 1) * freq, freq, sym)]
    IN DropNaRows(merged)

\* sub = df[df["symbol"] == sym]
SubFrame(df, sym) == SelectSeq(df, LAMBDA r : r.symbol = sym)

\* for sym in symbols: ... bars_list.append(merged); pd.concat(bars_list)
RECURSIVE ConcatBars(_, _, _)
ConcatBars(df, symbols, freq) ==
    IF symbols = <<>> THEN <<>>
    ELSE (IF SubFrame(df, Head(symbols)) = <<>> THEN <<>>
          ELSE ResampleSymbol(SubFrame(df, Head(symbols)), freq, Head(symbols)))
         \o ConcatBars(df, Tail(symbols), freq)

\* the frame resample_ticks_to_bars returns for the rows get_ticks gave it
ComputeBars(df, symbols, timeframe) ==
    IF df = <<>> THEN <<>>
    ELSE ConcatBars(df, symbols, FreqMs(FreqAlias(timeframe)))

\* Bar(symbol=..., timeframe=timeframe, ts=..., open=..., ...) for each row
BarRows(frame, timeframe) ==
    [i \in DOMAIN frame |->
        [symbol |-> frame[i].symbol, timeframe |-> timeframe, ts |-> frame[i].ts,
         open |-> frame[i].open, high |-> frame[i].high, low |-> frame[i].low,
         close |-> frame[i].close, volume |-> frame[i].volume]]

----------------------------------------------------------------------------
(* Threads *)

\* dashboard script runs (one per browser session), the callers of the pull API
Callers == {"d1", "d2"}
\* ingestion tasks, one per symbol stream
Tasks == {"w1", "w2"}
Threads == Callers \cup Tasks

\* midnight of the day the model's clock readings fall in
T0 == DayMs
\* the values datetime.utcnow() may read
Clocks == {T0 + 120250}

InitLocals ==
    /\ db_lock = Free
    /\ pc = [t \in Threads |-> "idle"]
    /\ args = [t \in Threads |-> NoArgs]
    /\ rows = [t \in Threads |-> <<>>]
    /\ cutoff = [t \in Threads |-> 0]
    /\ result = [t \in Threads |-> NoResult]
    /\ session = [t \in Threads |-> <<>>]
    /\ returned = {}
    /\ seen = [t \in Callers |-> {}]
    /\ calls = 0
    /\ ingestor_instance = None
    /\ ingestors = [c \in Callers |-> NotCreated]
    /\ spawned = <<>>
    /\ start_frame = [c \in Callers |-> NoFrame]

----------------------------------------------------------------------------
(* The ingestor's message handler *)

Has(j, k) == k \in DOMAIN j

\* _normalize_trade(j), with `clock` what datetime.utcnow() reads.
\* j.get("T") or j.get("E"): T unless it is absent or 0, else E when present.
\* The Tick object has no id until it is committed.
normalize_trade(j, clock) ==
    [id     |-> 0,
     symbol |-> IF Has(j, "s") THEN j.s ELSE None,
     ts     |-> IF Has(j, "T") /\ j.T # 0 THEN j.T
                ELSE IF Has(j, "E") THEN j.E
                ELSE clock,
     price  |-> IF Has(j, "p") THEN j.p ELSE 0,
     qty    |-> IF Has(j, "q") THEN j.q ELSE 0]

\* float(j.get("p", 0.0)), float(j.get("q", 0.0)) raise ValueError for a string
\* that is no number
NormalizeRaises(j) ==
    \/ Has(j, "p") /\ j.p = NotNumber
    \/ Has(j, "q") /\ j.q = NotNumber

\* j.get("e") == "trade", for a dict j
IsTrade(j) == Has(j, "e") /\ j.e = "trade"

\* A message is the text of a frame: text that is no JSON, JSON that is no
\* object, or a JSON object.
Text == [kind |-> "text"]
Array == [kind |-> "array"]
Obj(j) == [kind |-> "object", obj |-> j]

\* on_message(ws, message) up to the call of insert_tick: what the handler
\* does with a message.  json.loads failing and a message that is no trade make
\* it return; an exception of _normalize_trade leaves through it.
on_message(message, clock) ==
    IF message.kind = "text" THEN [kind |-> "return"]
    ELSE IF message.kind = "object" /\ IsTrade(message.obj)
    THEN (IF NormalizeRaises(message.obj) THEN [kind |-> "raise"]
          ELSE [kind |-> "insert", tick |-> normalize_trade(message.obj, clock)])
    ELSE IF message.kind = "object" /\ Has(message.obj, "data") /\ IsTrade(message.obj.data)
    THEN (IF NormalizeRaises(message.obj.data) THEN [kind |-> "raise"]
          ELSE [kind |-> "insert", tick |-> normalize_trade(message.obj.data, clock)])
    ELSE [kind |-> "return"]

\* the symbol whose stream a task reads
StreamSymbol(w) == IF w = "w1" THEN "BTCUSDT" ELSE "ETHUSDT"

\* a reading older than the dashboard's two-hour lookback
TOld == T0 - 7200000

\* the messages a stream may deliver: a trade, the same trade nested under
\* "data" with its time in E, the same trade with T = 0 and its time in E, a
\* trade of two hours ago whose price is "NaN", a trade with neither symbol nor
\* time nor quantity, a trade whose price is no number, an event that is no
\* trade, JSON that is no object, and text that is no JSON
StreamMessages(w) ==
    { Obj([e |-> "trade", s |-> StreamSymbol(w), T |-> T0 + 60500, p |-> 2, q |-> 1]),
      Obj([stream |-> "trade",
           data |-> [e |-> "trade", s |-> StreamSymbol(w), E |-> T0 + 60500, p |-> 2, q |-> 1]]),
      Obj([e |-> "trade", s |-> StreamSymbol(w), T |-> 0, E |-> T0 + 60500, p |-> 2, q |-> 1]),
      Obj([e |-> "trade", s |-> StreamSymbol(w), T |-> TOld, E |-> TOld + 1, p |-> NaN, q |-> 2]),
      Obj([e |-> "trade", p |-> 1]),
      Obj([e |-> "trade", s |-> StreamSymbol(w), T |-> T0 + 60500, p |-> NotNumber, q |-> 1]),
      Obj([e |-> "depthUpdate", s |-> StreamSymbol(w)]),
      Array,
      Text }

----------------------------------------------------------------------------
(* The tick store under concurrent ingestion tasks and dashboard callers *)

MaxTicks == 2
MaxCalls == 2

\* a lock that admits a thread whoever holds it
CanAcquireAlways(lock) == TRUE

\* with _db_lock: a thread enters when no thread holds the lock
CanAcquire(lock) == lock = Free

\* a with block that keeps the lock when it is left
UnlockNever(lock) == lock

\* the with block is left, by return or by exception: the lock is free again
Unlock(lock) == Free

\* a commit that does not write the session's objects
CommitLost(table, objs) == table

\* session.commit(): the session's objects become rows, ids in sequence
Commit(table, objs) ==
    table \o [i \in DOMAIN objs |-> [objs[i] EXCEPT !.id = Len(table) + i]]

InFlight == Cardinality({w \in Tasks : pc[w] # "idle"})

\* on_message: a trade, or the trade nested under "data", is normalized and
\* handed to insert_tick; any other message is dropped, and so is one whose
\* normalization raises (the exception ends the handler)
OnMessage(w, message, clock) ==
    /\ pc[w] = "idle"
    /\ Len(ticks) + InFlight < MaxTicks
    /\ IF on_message(message, clock).kind = "insert"
       THEN /\ args' = [args EXCEPT ![w] = on_message(message, clock).tick]
            /\ result' = [result EXCEPT ![w] = NoResult]
            /\ pc' = [pc EXCEPT ![w] = "it_lock"]
       ELSE UNCHANGED <<args, result, pc>>
    /\ UNCHANGED <<ticks, bars, db_lock, rows, cutoff, session,
                   returned, seen, calls>>
    /\ UNCHANGED ingestVars

\* insert_tick: with _db_lock; SessionLocal(); Tick(...); session.add(t)
AcquireInsert(w) ==
    /\ pc[w] = "it_lock"
    /\ CanAcquire(db_lock)
    /\ db_lock' = w
    /\ session' = [session EXCEPT ![w] = <<args[w]>>]
    /\ pc' = [pc EXCEPT ![w] = "it_commit"]
    /\ UNCHANGED <<ticks, bars, args, rows, cutoff, result, returned, seen, calls>>
    /\ UNCHANGED ingestVars

\* insert_tick: session.commit(); session.close()
CommitInsert(w) ==
    /\ pc[w] = "it_commit"
    /\ ticks' = Commit(ticks, session[w])
    /\ args' = [args EXCEPT ![w] = [@ EXCEPT !.id = Len(ticks) + 1]]
    /\ session' = [session EXCEPT ![w] = <<>>]
    /\ pc' = [pc EXCEPT ![w] = "it_close"]
    /\ UNCHANGED <<bars, db_lock, rows, cutoff, result, returned, seen, calls>>
    /\ UNCHANGED ingestVars

\* insert_tick: the with block ends, the lock is released, the call returns
ReleaseInsert(w) ==
    /\ pc[w] = "it_close"
    /\ db_lock' = Unlock(db_lock)
    /\ returned' = returned \cup {args[w]}
    /\ args' = [args EXCEPT ![w] = NoArgs]
    /\ pc' = [pc EXCEPT ![w] = "idle"]
    /\ UNCHANGED <<ticks, bars, rows, cutoff, result, session, seen, calls>>
    /\ UNCHANGED ingestVars

\* insert_tick when the database fails: session.commit() raises, the finally
\* clause closes the session, the with block releases the lock and the
\* exception leaves on_message.  What the websocket library then does with the
\* task is not this repository's code: the task goes on or ends.
FailInsert(w, ends) ==
    /\ pc[w] = "it_commit"
    /\ db_lock' = Unlock(db_lock)
    /\ session' = [session EXCEPT ![w] = <<>>]
    /\ args' = [args EXCEPT ![w] = NoArgs]
    /\ result' = [result EXCEPT ![w] = Raised]
    /\ pc' = [pc EXCEPT ![w] = IF ends THEN "closed" ELSE "idle"]
    /\ UNCHANGED <<ticks, bars, rows, cutoff, returned, seen, calls>>
    /\ UNCHANGED ingestVars

\* a thread that ends wherever it is, inside insert_tick too, the lock kept
CloseStreamInside(w) ==
    /\ pc[w] \in {"idle", "it_commit"}
    /\ pc' = [pc EXCEPT ![w] = "closed"]
    /\ UNCHANGED <<ticks, bars, db_lock, args, rows, cutoff, result, session,
                   returned, seen, calls>>
    /\ UNCHANGED ingestVars

\* _run_for_symbol: the connection closes or errors, ws.run_forever() returns
\* and the thread ends; nothing reconnects
CloseStream(w) ==
    /\ pc[w] = "idle"
    /\ pc' = [pc EXCEPT ![w] = "closed"]
    /\ UNCHANGED <<ticks, bars, db_lock, args, rows, cutoff, result, session,
                   returned, seen, calls>>
    /\ UNCHANGED ingestVars

\* load_bars: resample_ticks_to_bars([sym1, sym2], timeframe, minutes_back=120),
\* which calls get_ticks first
CallResample(d, symbols, timeframe) ==
    /\ pc[d] = "idle"
    /\ calls < MaxCalls
    /\ calls' = calls + 1
    /\ args' = [args EXCEPT ![d] = [op |-> "resample", symbols |-> symbols,
                                    timeframe |-> timeframe, minutes_back |-> 120]]
    /\ result' = [result EXCEPT ![d] = NoResult]
    /\ rows' = [rows EXCEPT ![d] = <<>>]
    /\ seen' = [seen EXCEPT ![d] = returned]
    /\ pc' = [pc EXCEPT ![d] = "gt_lock"]
    /\ UNCHANGED <<ticks, bars, db_lock, cutoff, session, returned>>
    /\ UNCHANGED ingestVars

\* get_ticks: with _db_lock; SessionLocal()
AcquireQuery(d) ==
    /\ pc[d] = "gt_lock"
    /\ CanAcquire(db_lock)
    /\ db_lock' = d
    /\ pc' = [pc EXCEPT ![d] = "gt_query"]
    /\ UNCHANGED <<ticks, bars, args, rows, cutoff, result, session,
                   returned, seen, calls>>
    /\ UNCHANGED ingestVars

\* get_ticks: cutoff = utcnow() - minutes_back; rows = q.all(); session.close()
Query(d, clock, plan) ==
    /\ pc[d] = "gt_query"
    /\ cutoff' = [cutoff EXCEPT ![d] = Cutoff(clock, args[d].minutes_back)]
    /\ rows' = [rows EXCEPT ![d] =
                  PlanOrder(QueryRows(ticks, args[d].symbols, cutoff'[d]), plan)]
    /\ pc' = [pc EXCEPT ![d] = "gt_close"]
    /\ UNCHANGED <<ticks, bars, db_lock, args, result, session, returned, seen, calls>>
    /\ UNCHANGED ingestVars

\* get_ticks releases the lock and returns the frame; resample_ticks_to_bars
\* returns an empty frame for an empty one (and the script run that called it
\* ends, its locals with it), else computes the bars
ReleaseQuery(d) ==
    /\ pc[d] = "gt_close"
    /\ db_lock' = Unlock(db_lock)
    /\ IF rows[d] = <<>>
       THEN /\ result' = [result EXCEPT ![d] = NoResult]
            /\ args' = [args EXCEPT ![d] = NoArgs]
            /\ pc' = [pc EXCEPT ![d] = "idle"]
       ELSE /\ result' = [result EXCEPT ![d] =
                  [kind |-> "computed",
                   bars |-> ComputeBars(rows[d], args[d].symbols, args[d].timeframe)]]
            /\ args' = args
            /\ pc' = [pc EXCEPT ![d] = "pb_lock"]
    /\ rows' = [rows EXCEPT ![d] = <<>>]
    /\ cutoff' = [cutoff EXCEPT ![d] = 0]
    /\ seen' = [seen EXCEPT ![d] = {}]
    /\ UNCHANGED <<ticks, bars, session, returned, calls>>
    /\ UNCHANGED ingestVars

\* get_ticks when the database fails: q.all() raises, the session is closed,
\* the lock released, and the exception ends the script run
FailQuery(d) ==
    /\ pc[d] = "gt_query"
    /\ db_lock' = Unlock(db_lock)
    /\ args' = [args EXCEPT ![d] = NoArgs]
    /\ seen' = [seen EXCEPT ![d] = {}]
    /\ result' = [result EXCEPT ![d] = Raised]
    /\ pc' = [pc EXCEPT ![d] = "idle"]
    /\ UNCHANGED <<ticks, bars, rows, cutoff, session, returned, calls>>
    /\ UNCHANGED ingestVars

\* persist: with _db_lock; SessionLocal(); session.add(Bar(...)) for each row
AcquirePersist(d) ==
    /\ pc[d] = "pb_lock"
    /\ CanAcquire(db_lock)
    /\ db_lock' = d
    /\ session' = [session EXCEPT ![d] = BarRows(result[d].bars, args[d].timeframe)]
    /\ pc' = [pc EXCEPT ![d] = "pb_commit"]
    /\ UNCHANGED <<ticks, bars, args, rows, cutoff, result, returned, seen, calls>>
    /\ UNCHANGED ingestVars

\* persist: session.commit(); session.close().  Bar ids are left out of the model.
CommitPersist(d) ==
    /\ pc[d] = "pb_commit"
    /\ bars' = bars \o session[d]
    /\ session' = [session EXCEPT ![d] = <<>>]
    /\ pc' = [pc EXCEPT ![d] = "pb_close"]
    /\ UNCHANGED <<ticks, db_lock, args, rows, cutoff, result, returned, seen, calls>>
    /\ UNCHANGED ingestVars

\* persist: the lock is released; return bars, and the script run ends
ReleasePersist(d) ==
    /\ pc[d] = "pb_close"
    /\ db_lock' = Unlock(db_lock)
    /\ result' = [result EXCEPT ![d] = NoResult]
    /\ args' = [args EXCEPT ![d] = NoArgs]
    /\ pc' = [pc EXCEPT ![d] = "idle"]
    /\ UNCHANGED <<ticks, bars, rows, cutoff, session, returned, seen, calls>>
    /\ UNCHANGED ingestVars

\* persist when the database fails: session.commit() raises, the session is
\* closed, the lock released, and the exception ends the script run
FailPersist(d) ==
    /\ pc[d] = "pb_commit"
    /\ db_lock' = Unlock(db_lock)
    /\ session' = [session EXCEPT ![d] = <<>>]
    /\ result' = [result EXCEPT ![d] = Raised]
    /\ args' = [args EXCEPT ![d] = NoArgs]
    /\ pc' = [pc EXCEPT ![d] = "idle"]
    /\ UNCHANGED <<ticks, bars, rows, cutoff, returned, seen, calls>>
    /\ UNCHANGED ingestVars

\* what the dashboard's select boxes give: the default pair, and the same
\* symbol chosen in both boxes
SymPairs == {DefaultPair, <<AVAILABLE_SYMBOLS[1], AVAILABLE_SYMBOLS[1]>>}
\* the radio's default timeframe
StoreTimeframes == {"1m"}

Init ==
    /\ ticks = <<>>
    /\ bars = <<>>
    /\ InitLocals

Next ==
    \/ \E w \in Tasks, clock \in Clocks : \E j \in StreamMessages(w) : OnMessage(w, j, clock)
    \/ \E w \in Tasks : AcquireInsert(w)
    \/ \E w \in Tasks : CommitInsert(w)
    \/ \E w \in Tasks : ReleaseInsert(w)
    \/ \E d \in Callers, symbols \in SymPairs, timeframe \in StoreTimeframes :
          CallResample(d, symbols, timeframe)
    \/ \E d \in Callers : AcquireQuery(d)
    \/ \E d \in Callers, clock \in Clocks, plan \in Plans : Query(d, clock, plan)
    \/ \E d \in Callers : ReleaseQuery(d)
    \/ \E d \in Callers : AcquirePersist(d)
    \/ \E d \in Callers : CommitPersist(d)
    \/ \E d \in Callers : ReleasePersist(d)
    \/ \E w \in Tasks, ends \in BOOLEAN : FailInsert(w, ends)
    \/ \E w \in Tasks : CloseStream(w)
    \/ \E d \in Callers : FailQuery(d)
    \/ \E d \in Callers : FailPersist(d)

Spec == Init /\ [][Next]_vars

\* The same threads with one message per stream, the default pair and the
\* access path SQLite takes for this query, for the properties of progress.
FairMessage(w) ==
    Obj([e |-> "trade", s |-> StreamSymbol(w), T |-> T0 + 60500, p |-> 2, q |-> 1])
FairPlan == "ix_ticks_symbol"

NextFair ==
    \/ \E w \in Tasks, clock \in Clocks : OnMessage(w, FairMessage(w), clock)
    \/ \E w \in Tasks : AcquireInsert(w)
    \/ \E w \in Tasks : CommitInsert(w)
    \/ \E w \in Tasks : ReleaseInsert(w)
    \/ \E d \in Callers : CallResample(d, DefaultPair, "1m")
    \/ \E d \in Callers : AcquireQuery(d)
    \/ \E d \in Callers, clock \in Clocks : Query(d, clock, FairPlan)
    \/ \E d \in Callers : ReleaseQuery(d)
    \/ \E d \in Callers : AcquirePersist(d)
    \/ \E d \in Callers : CommitPersist(d)
    \/ \E d \in Callers : ReleasePersist(d)
    \/ \E w \in Tasks, ends \in BOOLEAN : FailInsert(w, ends)
    \/ \E w \in Tasks : CloseStream(w)
    \/ \E d \in Callers : FailQuery(d)
    \/ \E d \in Callers : FailPersist(d)

\* Fair scheduling: a thread that can take a step of its own takes it, and a
\* thread waiting for the lock gets it if the lock is free again and again.
Fairness ==
    /\ \A w \in Tasks :
          /\ SF_vars(AcquireInsert(w))
          /\ WF_vars(CommitInsert(w) \/ \E ends \in BOOLEAN : FailInsert(w, ends))
          /\ WF_vars(ReleaseInsert(w))
    /\ \A d \in Callers :
          /\ SF_vars(AcquireQuery(d))
          /\ WF_vars(FailQuery(d) \/ \E clock \in Clocks : Query(d, clock, FairPlan))
          /\ WF_vars(ReleaseQuery(d))
          /\ SF_vars(AcquirePersist(d))
          /\ WF_vars(CommitPersist(d) \/ FailPersist(d))
          /\ WF_vars(ReleasePersist(d))

SpecFair == Init /\ [][NextFair]_vars /\ Fairness

----------------------------------------------------------------------------
(* get_or_create_ingestor and BinanceFuturesTickIngestor.start, called from   *)
(* concurrent script runs                                                     *)

\* s.lower()
Lower(s) ==
    CASE s = "BTCUSDT" -> "btcusdt"
      [] s = "ETHUSDT" -> "ethusdt"
      [] s = "BNBUSDT" -> "bnbusdt"
      [] OTHER -> s

\* the symbol lists a caller may pass
IngestLists == {<<"BTCUSDT">>, <<"ETHUSDT">>, AVAILABLE_SYMBOLS}

\* get_or_create_ingestor(symbols) is entered
CallIngest(c, symbols) ==
    /\ pc[c] = "idle"
    /\ args' = [args EXCEPT ![c] = [op |-> "ingest", symbols |-> symbols]]
    /\ result' = [result EXCEPT ![c] = NoResult]
    /\ pc' = [pc EXCEPT ![c] = "g_check"]
    /\ UNCHANGED <<ingestVars, storeVars>>

\* if _ingestor_instance is None:
CheckInstance(c) ==
    /\ pc[c] = "g_check"
    /\ pc' = [pc EXCEPT ![c] = IF ingestor_instance = None THEN "g_create" ELSE "g_return"]
    /\ UNCHANGED <<args, result, ingestVars, storeVars>>

\* init_db(); _ingestor_instance = BinanceFuturesTickIngestor(symbols)
CreateIngestor(c) ==
    /\ pc[c] = "g_create"
    /\ ingestors' = [ingestors EXCEPT ![c] =
          [created |-> TRUE,
           symbols |-> [i \in DOMAIN args[c].symbols |-> Lower(args[c].symbols[i])],
           running |-> FALSE, threads |-> <<>>]]
    /\ ingestor_instance' = c
    /\ pc' = [pc EXCEPT ![c] = "g_start"]
    /\ UNCHANGED <<args, result, spawned, start_frame, storeVars>>

\* _ingestor_instance.start(): the global is read again; if self._running: return
StartEnter(c) ==
    /\ pc[c] = "g_start"
    /\ IF ingestors[ingestor_instance].running
       THEN /\ pc' = [pc EXCEPT ![c] = "g_return"]
            /\ UNCHANGED start_frame
       ELSE /\ pc' = [pc EXCEPT ![c] = "s_set"]
            /\ start_frame' = [start_frame EXCEPT ![c] = [self |-> ingestor_instance, i |-> 0, t |-> 0]]
    /\ UNCHANGED <<args, result, ingestor_instance, ingestors, spawned, storeVars>>

\* self._running = True; self._threads = []
StartSet(c) ==
    /\ pc[c] = "s_set"
    /\ ingestors' = [ingestors EXCEPT ![start_frame[c].self] =
          [@ EXCEPT !.running = TRUE, !.threads = <<>>]]
    /\ start_frame' = [start_frame EXCEPT ![c] = [@ EXCEPT !.i = 1]]
    /\ pc' = [pc EXCEPT ![c] = "s_loop"]
    /\ UNCHANGED <<args, result, ingestor_instance, spawned, storeVars>>

\* for sym in self.symbols: t = Thread(...); t.start()
\* The thread opens its connection and sits in ws.run_forever().  The caller
\* keeps the thread in its local t.
StartSpawn(c) ==
    /\ pc[c] = "s_loop"
    /\ LET self == start_frame[c].self
           i == start_frame[c].i
       IN /\ spawned' = Append(spawned, [ingestor |-> self, sym |-> ingestors[self].symbols[i],
                                        conn |-> "open", alive |-> TRUE])
          /\ start_frame' = [start_frame EXCEPT ![c] = [@ EXCEPT !.t = Len(spawned) + 1]]
          /\ pc' = [pc EXCEPT ![c] = "s_append"]
    /\ UNCHANGED <<args, result, ingestor_instance, ingestors, storeVars>>

\* self._threads.append(t), and the loop goes on or ends
StartAppend(c) ==
    /\ pc[c] = "s_append"
    /\ LET self == start_frame[c].self
           i == start_frame[c].i
       IN /\ ingestors' = [ingestors EXCEPT ![self] =
                [@ EXCEPT !.threads = Append(@, start_frame[c].t)]]
          /\ start_frame' = [start_frame EXCEPT ![c] = [@ EXCEPT !.i = i + 1, !.t = 0]]
          /\ pc' = [pc EXCEPT ![c] =
                IF i = Len(ingestors[self].symbols) THEN "g_return" ELSE "s_loop"]
    /\ UNCHANGED <<args, result, ingestor_instance, spawned, storeVars>>

\* return _ingestor_instance
ReturnIngestor(c) ==
    /\ pc[c] = "g_return"
    /\ result' = [result EXCEPT ![c] = [kind |-> "ingestor", id |-> ingestor_instance]]
    /\ start_frame' = [start_frame EXCEPT ![c] = NoFrame]
    /\ pc' = [pc EXCEPT ![c] = "idle"]
    /\ UNCHANGED <<args, ingestor_instance, ingestors, spawned, storeVars>>

NextIngest ==
    \/ \E c \in Callers, symbols \in IngestLists : CallIngest(c, symbols)
    \/ \E c \in Callers : CheckInstance(c)
    \/ \E c \in Callers : CreateIngestor(c)
    \/ \E c \in Callers : StartEnter(c)
    \/ \E c \in Callers : StartSet(c)
    \/ \E c \in Callers : StartSpawn(c)
    \/ \E c \in Callers : StartAppend(c)
    \/ \E c \in Callers : ReturnIngestor(c)

SpecIngest == Init /\ [][NextIngest]_vars

----------------------------------------------------------------------------
(* BinanceFuturesTickIngestor.stop and start, called on the ingestor that     *)
(* get_or_create_ingestor returned, by one script run                         *)

MaxThreads == 6

\* the ingestor a caller holds: the one its last call returned or was made on
Holds(c) == result[c] # NoResult /\ result[c].kind \in {"ingestor", "stopped", "started"}

\* stop(): self._running = False, and a line is printed.  No connection is
\* closed and no thread is told to end.
Stop(c) ==
    /\ pc[c] = "idle"
    /\ Holds(c)
    /\ ingestors' = [ingestors EXCEPT ![result[c].id] = [@ EXCEPT !.running = FALSE]]
    /\ args' = [args EXCEPT ![c] = [op |-> "stop", self |-> result[c].id]]
    /\ result' = [result EXCEPT ![c] = [kind |-> "stopped", id |-> result[c].id]]
    /\ UNCHANGED <<pc, ingestor_instance, spawned, start_frame, storeVars>>

\* start() is called on the ingestor held
CallStart(c) ==
    /\ pc[c] = "idle"
    /\ Holds(c)
    /\ Len(spawned) + Len(ingestors[result[c].id].symbols) <= MaxThreads
    /\ args' = [args EXCEPT ![c] = [op |-> "start", self |-> result[c].id]]
    /\ result' = [result EXCEPT ![c] = NoResult]
    /\ pc' = [pc EXCEPT ![c] = "m_start"]
    /\ UNCHANGED <<ingestVars, storeVars>>

\* start(): if self._running: return
StartEnterSelf(c) ==
    /\ pc[c] = "m_start"
    /\ IF ingestors[args[c].self].running
       THEN /\ pc' = [pc EXCEPT ![c] = "g_return"]
            /\ UNCHANGED start_frame
       ELSE /\ pc' = [pc EXCEPT ![c] = "s_set"]
            /\ start_frame' = [start_frame EXCEPT ![c] = [self |-> args[c].self, i |-> 0, t |-> 0]]
    /\ UNCHANGED <<args, result, ingestor_instance, ingestors, spawned, storeVars>>

\* start() returns to the caller, which still holds the ingestor
ReturnStart(c) ==
    /\ pc[c] = "g_return"
    /\ args[c].op = "start"
    /\ result' = [result EXCEPT ![c] = [kind |-> "started", id |-> args[c].self]]
    /\ start_frame' = [start_frame EXCEPT ![c] = NoFrame]
    /\ pc' = [pc EXCEPT ![c] = "idle"]
    /\ UNCHANGED <<args, ingestor_instance, ingestors, spawned, storeVars>>

\* the network or the server ends connection k: on_close, run_forever returns
ConnectionLost(k) ==
    /\ spawned[k].conn = "open"
    /\ spawned' = [spawned EXCEPT ![k] = [@ EXCEPT !.conn = "closed"]]
    /\ UNCHANGED <<pc, args, result, ingestor_instance, ingestors, start_frame, storeVars>>

\* _run_for_symbol returns once run_forever has: the thread is over
TaskExit(k) ==
    /\ spawned[k].conn = "closed"
    /\ spawned[k].alive
    /\ spawned' = [spawned EXCEPT ![k] = [@ EXCEPT !.alive = FALSE]]
    /\ UNCHANGED <<pc, args, result, ingestor_instance, ingestors, start_frame, storeVars>>

\* the steps of the program, as opposed to the calls the script chooses to
\* make and to what the network does
StopSteps(c) ==
    \/ CheckInstance(c)
    \/ CreateIngestor(c)
    \/ StartEnter(c)
    \/ StartEnterSelf(c)
    \/ StartSet(c)
    \/ StartSpawn(c)
    \/ StartAppend(c)
    \/ args[c].op = "ingest" /\ ReturnIngestor(c)
    \/ ReturnStart(c)
    \/ \E k \in DOMAIN spawned : TaskExit(k)

NextStop ==
    \/ \E symbols \in IngestLists : result["d1"] = NoResult /\ CallIngest("d1", symbols)
    \/ Stop("d1")
    \/ CallStart("d1")
    \/ StopSteps("d1")
    \/ \E k \in DOMAIN spawned : ConnectionLost(k)

SpecStop == Init /\ [][NextStop]_vars /\ WF_vars(StopSteps("d1"))

----------------------------------------------------------------------------
(* The resampler alone: one call of resample_ticks_to_bars on a given store *)

MaxRows == 2

TsBars == {T0 + 59500, T0 + 60000, T0 + 60500, T0 + 182100}
TickDomBars ==
    [symbol : Range(DefaultPair), ts : TsBars, price : {NaN, 1, 2, 3}, qty : {1, 2}]

\* the id column: autoincrement, so a row's id is its position
WithIds(s) ==
    [i \in DOMAIN s |->
        [id |-> i, symbol |-> s[i].symbol, ts |-> s[i].ts,
         price |-> s[i].price, qty |-> s[i].qty]]

SymLists == UNION {[1..n -> Range(DefaultPair)] : n \in 1..2}

InitBars ==
    /\ ticks \in {WithIds(s) : s \in UNION {[1..n -> TickDomBars] : n \in 0..MaxRows}}
    /\ bars = <<>>
    /\ InitLocals

\* resample_ticks_to_bars(symbols, timeframe, minutes_back) up to its persist
\* step: get_ticks, whose critical section (lock taken, query, session closed,
\* lock released) is one step that needs the lock free, and the loop over the
\* symbols, which touches no shared state.  An empty frame is returned at
\* once; else the call goes on to wait for the lock again.
ResampleCall(d, symbols, timeframe, minutes_back, clock, plan) ==
    /\ pc[d] = "idle"
    /\ CanAcquire(db_lock)
    /\ args' = [args EXCEPT ![d] = [op |-> "resample", symbols |-> symbols,
                                    timeframe |-> timeframe,
                                    minutes_back |-> minutes_back]]
    /\ cutoff' = [cutoff EXCEPT ![d] = Cutoff(clock, minutes_back)]
    /\ rows' = [rows EXCEPT ![d] =
                  PlanOrder(QueryRows(ticks, symbols, Cutoff(clock, minutes_back)), plan)]
    /\ result' = [result EXCEPT ![d] =
                    [kind |-> IF rows'[d] = <<>> THEN "frame" ELSE "computed",
                     bars |-> ComputeBars(rows'[d], symbols, timeframe)]]
    /\ pc' = [pc EXCEPT ![d] = IF rows'[d] = <<>> THEN "idle" ELSE "pb_lock"]
    /\ calls' = calls + 1
    /\ UNCHANGED <<ticks, bars, db_lock, session, returned, seen>>
    /\ UNCHANGED ingestVars

\* the persist step: with _db_lock, a Bar added for each row, commit, close;
\* the lock is released and the frame returned
PersistBars(d) ==
    /\ pc[d] = "pb_lock"
    /\ CanAcquire(db_lock)
    /\ bars' = bars \o BarRows(result[d].bars, args[d].timeframe)
    /\ result' = [result EXCEPT ![d] = [@ EXCEPT !.kind = "frame"]]
    /\ pc' = [pc EXCEPT ![d] = "idle"]
    /\ UNCHANGED <<ticks, db_lock, args, rows, cutoff, session, returned, seen, calls>>
    /\ UNCHANGED ingestVars

NextBars ==
    \/ \E symbols \in SymLists, timeframe \in Timeframes \cup {"2m"},
          minutes_back \in {1, 120}, clock \in Clocks, plan \in Plans :
            calls = 0 /\ ResampleCall("d1", symbols, timeframe, minutes_back, clock, plan)
    \/ PersistBars("d1")

SpecBars == InitBars /\ [][NextBars]_vars

----------------------------------------------------------------------------
(* resample called again and again over one tick store *)

\* two symbols, two instants of one minute, two prices for the first symbol:
\* stores with rows of one symbol at the same instant or out of timestamp order
TickDomRerun ==
    [symbol : {DefaultPair[1]}, ts : {T0 + 60000, T0 + 60500}, price : {1, 2}, qty : {1}]
    \cup [symbol : {DefaultPair[2]}, ts : {T0 + 60000, T0 + 60500}, price : {1}, qty : {1}]

InitRerun ==
    /\ ticks \in {WithIds(s) : s \in UNION {[1..n -> TickDomRerun] : n \in 0..MaxRows}}
    /\ bars = <<>>
    /\ InitLocals

\* two script runs call resample again and again; a call overwrites the
\* caller's earlier arguments and result
NextRerun ==
    \/ \E d \in Callers, timeframe \in {"1m", "5m"}, clock \in Clocks, plan \in Plans :
          calls <= MaxCalls /\ ResampleCall(d, DefaultPair, timeframe, 120, clock, plan)
    \/ \E d \in Callers : PersistBars(d)

SpecRerun == InitRerun /\ [][NextRerun]_vars

----------------------------------------------------------------------------
(* The message handlers alone, with a database that works *)

\* on_message(ws, message) up to the call of insert_tick: the message is
\* parsed and, for a trade, the clock is read and the tick's values are made.
\* The message and what became of it are kept for the properties.
Deliver(w, message, clock) ==
    /\ pc[w] = "idle"
    /\ Len(ticks) + InFlight < MaxTicks
    /\ LET out == on_message(message, clock)
       IN /\ args' = [args EXCEPT ![w] =
                [op |-> "on_message", message |-> message, clock |-> clock]]
          /\ result' = [result EXCEPT ![w] =
                IF out.kind = "insert" THEN NoResult ELSE [kind |-> out.kind, new |-> <<>>]]
          /\ pc' = [pc EXCEPT ![w] = IF out.kind = "insert" THEN "it_lock" ELSE "idle"]
    /\ UNCHANGED <<ticks, bars, db_lock, rows, cutoff, session, returned, seen, calls>>
    /\ UNCHANGED ingestVars

\* insert_tick: the handler waits for _db_lock; its critical section (the row
\* added and committed, the session closed) is one step, after which the lock
\* is free again and the handler returns
InsertDelivered(w) ==
    /\ pc[w] = "it_lock"
    /\ CanAcquire(db_lock)
    /\ LET tick == on_message(args[w].message, args[w].clock).tick
           new == <<[tick EXCEPT !.id = Len(ticks) + 1]>>
       IN /\ ticks' = Commit(ticks, <<tick>>)
          /\ returned' = returned \cup Range(new)
          /\ result' = [result EXCEPT ![w] = [kind |-> "insert", new |-> new]]
    /\ pc' = [pc EXCEPT ![w] = "idle"]
    /\ UNCHANGED <<bars, db_lock, args, rows, cutoff, session, seen, calls>>
    /\ UNCHANGED ingestVars

NextStream ==
    \/ \E w \in Tasks, clock \in Clocks : \E message \in StreamMessages(w) :
          Deliver(w, message, clock)
    \/ \E w \in Tasks : InsertDelivered(w)

SpecStream == Init /\ [][NextStream]_vars

----------------------------------------------------------------------------
(* The pair analytics: compute_hedge_ratio and compute_spread_and_zscore *)

\* A series is a sequence of [ts, v], its index increasing; v may be NaN.
Index(px) == {px[i].ts : i \in DOMAIN px}
At(px, ts) == px[CHOOSE i \in DOMAIN px : px[i].ts = ts].v

\* pd.concat([px_x, px_y], axis=1, join="inner").dropna(): a row for each index
\* value of px_x that px_y has too, without the rows that hold a NaN
Aligned(px_x, px_y) ==
    LET both == SelectSeq(px_x, LAMBDA e : e.ts \in Index(px_y))
        joined == [i \in DOMAIN both |->
                     [ts |-> both[i].ts, x |-> both[i].v, y |-> At(px_y, both[i].ts)]]
    IN SelectSeq(joined, LAMBDA r : r.x # NaN /\ r.y # NaN)

\* if len(aligned) < 10
MinObs == 10

Abs(n) == IF n < 0 THEN -n ELSE n

RECURSIVE Gcd(_, _)
Gcd(a, b) == IF b = 0 THEN a ELSE Gcd(b, a % b)

\* the fraction num/den, den > 0, in lowest terms
Frac(num, den) ==
    LET g == Gcd(Abs(num), den)
    IN [kind |-> "float", num |-> num \div g, den |-> den \div g]

\* add_constant(x) with has_constant="skip": a column that is constant and not
\* zero counts as the constant already, and no column of ones is added
HasConstant(aligned) ==
    /\ \A i \in DOMAIN aligned : aligned[i].y = aligned[1].y
    /\ aligned[1].y # 0

\* compute_hedge_ratio(px_x, px_y): NaN below MinObs observations; else the
\* slope params[1] of the least-squares fit of the px_x values on a constant
\* and the px_y values.  When add_constant adds no column, params has one
\* entry and params[1] raises IndexError.  When the px_y values are all zero
\* the fit of least norm has slope 0.
compute_hedge_ratio(px_x, px_y) ==
    LET aligned == Aligned(px_x, px_y)
        n == Len(aligned)
        Sx == SumSeq([i \in DOMAIN aligned |-> aligned[i].y])
        Sy == SumSeq([i \in DOMAIN aligned |-> aligned[i].x])
        Sxx == SumSeq([i \in DOMAIN aligned |-> aligned[i].y * aligned[i].y])
        Sxy == SumSeq([i \in DOMAIN aligned |-> aligned[i].y * aligned[i].x])
    IN IF n < MinObs THEN [kind |-> "nan"]
       ELSE IF HasConstant(aligned) THEN [kind |-> "raise"]
       ELSE IF n * Sxx - Sx * Sx = 0 THEN Frac(0, 1)
       ELSE Frac(n * Sxy - Sx * Sy, n * Sxx - Sx * Sx)

\* the index of px_x - beta * px_y: the union of the two, increasing
RECURSIVE Ascending(_)
Ascending(S) ==
    IF S = {} THEN <<>>
    ELSE LET m == CHOOSE m \in S : \A o \in S : m <= o
         IN <<m>> \o Ascending(S \ {m})

\* px_x - beta * px_y has no value at ts: an operand has no entry or a NaN there
Missing(px_x, px_y, ts) ==
    \/ ts \notin Index(px_x) \/ ts \notin Index(px_y)
    \/ At(px_x, ts) = NaN \/ At(px_y, ts) = NaN

\* the value of px_x - beta * px_y at ts, times beta's denominator
SpreadNum(px_x, px_y, beta, ts) ==
    IF Missing(px_x, px_y, ts) THEN 0
    ELSE beta.den * At(px_x, ts) - beta.num * At(px_y, ts)

\* one entry of px_x - beta * px_y: missing where either operand is
SpreadAt(px_x, px_y, beta, ts) ==
    IF Missing(px_x, px_y, ts)
    THEN [ts |-> ts, nan |-> TRUE, num |-> 0, den |-> 1]
    ELSE LET f == Frac(SpreadNum(px_x, px_y, beta, ts), beta.den)
         IN [ts |-> ts, nan |-> FALSE, num |-> f.num, den |-> f.den]

\* window: int = 100
DefaultWindow == 100

\* the z-score at position i of the index:
\*   (spread - spread.rolling(window, min_periods=window // 2).mean())
\*       / spread.rolling(window, min_periods=window // 2).std()
\* over the last `window` positions, of which k hold a value.  It is NaN where
\* the spread is, where k is below min_periods, where k < 2 (the sample
\* deviation wants two values) and where the deviation is 0 (0 / 0).  Else it
\* is sign * sqrt(num / den), in exact arithmetic: with n the values times
\* beta's denominator, S their sum and Q the sum of their squares,
\*   z ^ 2 = (k n_i - S) ^ 2 (k - 1) / (k (k Q - S ^ 2)).
ZAt(px_x, px_y, beta, idx, i, window) ==
    LET lo == IF i - window + 1 < 1 THEN 1 ELSE i - window + 1
        pos == [j \in 1..(i - lo + 1) |-> idx[lo + j - 1]]
        k == Len(SelectSeq(pos, LAMBDA ts : ~Missing(px_x, px_y, ts)))
        n == [j \in DOMAIN pos |-> SpreadNum(px_x, px_y, beta, pos[j])]
        S == SumSeq(n)
        Q == SumSeq([j \in DOMAIN n |-> n[j] * n[j]])
        dev == k * SpreadNum(px_x, px_y, beta, idx[i]) - S
        var == k * Q - S * S
        none == [ts |-> idx[i], nan |-> TRUE, sign |-> 0, num |-> 0, den |-> 1]
    IN IF Missing(px_x, px_y, idx[i]) \/ k < window \div 2 \/ k < 2 \/ var = 0
       THEN none
       ELSE LET f == Frac(dev * dev * (k - 1), k * var)
            IN [ts |-> idx[i], nan |-> FALSE,
                sign |-> IF dev < 0 THEN -1 ELSE IF dev = 0 THEN 0 ELSE 1,
                num |-> f.num, den |-> f.den]

\* compute_spread_and_zscore(px_x, px_y, window): two empty series when beta is
\* NaN; else spread = px_x - beta * px_y over the union of the indexes, and z
\* over the same index.
compute_spread_and_zscore(px_x, px_y, window) ==
    LET beta == compute_hedge_ratio(px_x, px_y)
        idx == Ascending(Index(px_x) \cup Index(px_y))
    IN IF beta.kind = "raise" THEN [kind |-> "raise"]
       ELSE IF beta.kind = "nan" THEN [kind |-> "series", spread |-> <<>>, z |-> <<>>]
       ELSE [kind |-> "series",
             spread |-> [i \in DOMAIN idx |-> SpreadAt(px_x, px_y, beta, idx[i])],
             z |-> [i \in DOMAIN idx |-> ZAt(px_x, px_y, beta, idx, i, window)]]

\* The series the model tries: an index of consecutive instants from `start`,
\* values of one shape, and at most one missing value.
MaxSeriesLen == 11
Shapes == {"constant", "zero", "ramp", "zigzag"}
ValueAt(shape, ts) ==
    CASE shape = "constant" -> 2
      [] shape = "zero" -> 0
      [] shape = "ramp" -> ts
      [] shape = "zigzag" -> 1 + (ts % 2)

SeriesOf(start, len, shape, hole) ==
    [i \in 1..len |->
        [ts |-> start + i - 1,
         v |-> IF i = hole THEN NaN ELSE ValueAt(shape, start + i - 1)]]

Lengths == {3} \cup (MinObs..MaxSeriesLen)

\* px_x: prices that move, with or without a missing value
FamilyX ==
    {SeriesOf(start, len, shape, hole) :
        start \in {1, 2}, len \in Lengths, shape \in {"ramp", "zigzag"}, hole \in {0, 2}}

\* px_y: every shape, no missing value
FamilyY ==
    {SeriesOf(start, len, shape, 0) : start \in {1, 2}, len \in Lengths, shape \in Shapes}

\* the dashboard calls compute_hedge_ratio(px_x, px_y)
CallHedgeRatio(d, px_x, px_y) ==
    /\ pc[d] = "idle"
    /\ args' = [args EXCEPT ![d] = [op |-> "hedge_ratio", px_x |-> px_x, px_y |-> px_y]]
    /\ result' = [result EXCEPT ![d] = compute_hedge_ratio(px_x, px_y)]
    /\ UNCHANGED <<pc, storeVars, ingestVars>>

\* the dashboard calls compute_spread_and_zscore(px_x, px_y, window=window)
CallSpread(d, px_x, px_y, window) ==
    /\ pc[d] = "idle"
    /\ args' = [args EXCEPT ![d] = [op |-> "spread_and_zscore", px_x |-> px_x,
                                    px_y |-> px_y, window |-> window]]
    /\ result' = [result EXCEPT ![d] = compute_spread_and_zscore(px_x, px_y, window)]
    /\ UNCHANGED <<pc, storeVars, ingestVars>>

\* a window shorter than the series, the least window the dashboard's slider
\* gives, and the default
Windows == {4, 20, DefaultWindow}

\* one call in a behaviour: the functions keep no state between calls
NextPairs ==
    \/ \E px_x \in FamilyX, px_y \in FamilyY :
          result["d1"] = NoResult /\ CallHedgeRatio("d1", px_x, px_y)
    \/ \E px_x \in FamilyX, px_y \in FamilyY, window \in Windows :
          result["d1"] = NoResult /\ CallSpread("d1", px_x, px_y, window)

SpecPairs == Init /\ [][NextPairs]_vars

----------------------------------------------------------------------------
(* Properties *)

\* a thread is between acquiring _db_lock and releasing it
InCritical(t) ==
    pc[t] \in {"it_commit", "it_close", "gt_query", "gt_close", "pb_commit", "pb_close"}

\* C1: store access is mutually exclusive.  At most one thread is inside a
\* critical section of insert_tick, get_ticks or the persist step; it holds the
\* lock, no other thread has uncommitted objects in a session, and the rows a
\* query has read are committed rows of the table.
C1_MutualExclusion ==
    /\ Cardinality({t \in Threads : InCritical(t)}) <= 1
    /\ \A t \in Threads : InCritical(t) =>
          /\ db_lock = t
          /\ \A u \in Threads \ {t} : session[u] = <<>>
    /\ \A d \in Callers : pc[d] = "gt_close" =>
          \A k \in DOMAIN rows[d] :
              /\ rows[d][k].id \in DOMAIN ticks
              /\ ticks[rows[d][k].id] = rows[d][k]

\* a query has read committed rows while an ingestion task waits for the lock
\* with a tick to insert and the other caller waits to query
C1_Witness ==
    \E d \in Callers, w \in Tasks :
        /\ pc[d] = "gt_close" /\ rows[d] # <<>>
        /\ pc[w] = "it_lock"
        /\ \E e \in Callers \ {d} : pc[e] = "gt_lock"

\* C2: append rejects a tick whose symbol is empty or missing or whose price or
\* quantity is not finite, so no such tick is ever a row of the table.
C2_AppendValidates ==
    \A i \in DOMAIN ticks :
        /\ ticks[i].symbol \notin {None, ""}
        /\ ticks[i].price # NaN
        /\ ticks[i].qty # NaN

\* C3: read-after-append.  A query returns every tick whose insert_tick had
\* returned when the query's call started, whose symbol the query names and
\* whose timestamp is at or after the query's cutoff.
C3_ReadAfterAppend ==
    \A d \in Callers : pc[d] = "gt_close" =>
        \A x \in seen[d] :
            (x.symbol \in Range(args[d].symbols) /\ x.ts >= cutoff[d])
                => \E k \in DOMAIN rows[d] : rows[d][k] = x

\* a query that started after one append returned, ran while a second tick was
\* committed, and returns the first
C3_Witness ==
    \E d \in Callers :
        /\ pc[d] = "gt_close"
        /\ \E x \in seen[d] : x.symbol \in Range(args[d].symbols) /\ x.ts >= cutoff[d]
        /\ Len(ticks) > Cardinality(seen[d])

\* the threads started for a symbol
TasksFor(sym) == {k \in DOMAIN spawned : spawned[k].sym = sym}

\* C4: ingest_start is idempotent: at most one ingestor is ever created and at
\* most one ingestion task is ever started per symbol.
C4_IngestStartOnce ==
    /\ Cardinality({c \in Callers : ingestors[c].created}) <= 1
    /\ \A sym \in {Lower(x) : x \in Range(AVAILABLE_SYMBOLS)} :
          Cardinality(TasksFor(sym)) <= 1

\* C5: once ingest_start(symbols) has returned, every symbol of its argument
\* has an ingestion task that has been started.
C5_IngestStartCovers ==
    \A c \in Callers :
        (args[c] # NoArgs /\ args[c].op = "ingest" /\ result[c] # NoResult) =>
            \A i \in DOMAIN args[c].symbols :
                TasksFor(Lower(args[c].symbols[i])) # {}

\* a caller's resample_ticks_to_bars call has returned
Resampled(d) == args[d] # NoArgs /\ args[d].op = "resample" /\ result[d].kind = "frame"

\* C6: resample with a timeframe outside {1s, 1m, 5m} fails: it returns no
\* bars and persists no bar row.  (The code has no path that raises, so the
\* failure is stated by its effects.)
C6_UnknownTimeframeRejected ==
    \A d \in Callers :
        (Resampled(d) /\ args[d].timeframe \notin Timeframes) =>
            /\ result[d].bars = <<>>
            /\ bars = <<>>

\* C7: the bars table holds at most one row per (symbol, timeframe,
\* bucket_start), however often resample_ticks_to_bars has run.
C7_BarsUniquePerKey ==
    \A i, j \in DOMAIN bars :
        (i < j) => <<bars[i].symbol, bars[i].timeframe, bars[i].ts>>
                     # <<bars[j].symbol, bars[j].timeframe, bars[j].ts>>

\* the length of a timeframe of the enumerated set, in milliseconds
Duration(timeframe) ==
    CASE timeframe = "1s" -> 1000
      [] timeframe = "1m" -> 60 * 1000
      [] timeframe = "5m" -> 5 * 60 * 1000

\* the queried ticks of a symbol with timestamp in [b, b + len)
InBucket(d, sym, b, len) ==
    {rows[d][k] : k \in {k \in DOMAIN rows[d] :
        rows[d][k].symbol = sym /\ b <= rows[d][k].ts /\ rows[d][k].ts < b + len}}

\* the chronologically first and last tick of a set: by timestamp, ticks of one
\* timestamp in the order they were stored
Earliest(S) == CHOOSE r \in S : \A o \in S : r.ts < o.ts \/ (r.ts = o.ts /\ r.id <= o.id)
Latest(S) == CHOOSE r \in S : \A o \in S : o.ts < r.ts \/ (r.ts = o.ts /\ o.id <= r.id)

RECURSIVE TotalQty(_)
TotalQty(S) == IF S = {} THEN 0 ELSE LET r == CHOOSE r \in S : TRUE
                                      IN r.qty + TotalQty(S \ {r})

\* C8: every bar returned for symbol s and bucket [b, b + timeframe) has the
\* price of the bucket's chronologically first tick as open, of its last tick as
\* close, the greatest price as high, the least as low and the sum of the
\* quantities as volume, over the queried ticks of s in the bucket and no other.
C8_BarIsOhlcvOfBucket ==
    \A d \in Callers :
        (Resampled(d) /\ args[d].timeframe \in Timeframes) =>
            \A k \in DOMAIN result[d].bars :
                LET bar == result[d].bars[k]
                    S == InBucket(d, bar.symbol, bar.ts, Duration(args[d].timeframe))
                IN /\ S # {}
                   /\ bar.open = Earliest(S).price
                   /\ bar.close = Latest(S).price
                   /\ \A r \in S : r.price <= bar.high /\ bar.low <= r.price
                   /\ \E r \in S : r.price = bar.high
                   /\ \E r \in S : r.price = bar.low
                   /\ bar.volume = TotalQty(S)

\* the bucket of the epoch-aligned partition that holds a timestamp
EpochBucket(ts, len) == ts - (ts % len)

\* C9: sparse output.  A bar is returned for (symbol, bucket) exactly when a
\* queried tick of that symbol has its timestamp in the bucket.
C9_BarIffTickInBucket ==
    \A d \in Callers :
        (Resampled(d) /\ args[d].timeframe \in Timeframes) =>
            LET len == Duration(args[d].timeframe)
                out == result[d].bars
            IN /\ \A k \in DOMAIN out : InBucket(d, out[k].symbol, out[k].ts, len) # {}
               /\ \A i \in DOMAIN rows[d] :
                     \E k \in DOMAIN out :
                         /\ out[k].symbol = rows[d][i].symbol
                         /\ out[k].ts = EpochBucket(rows[d][i].ts, len)

\* C10: every bar's bucket_start is a multiple of the timeframe's length since
\* the epoch, and every queried tick is counted in exactly one returned bar.
C10_AlignedAndCountedOnce ==
    \A d \in Callers :
        (Resampled(d) /\ args[d].timeframe \in Timeframes) =>
            LET len == Duration(args[d].timeframe)
                out == result[d].bars
            IN /\ \A k \in DOMAIN out : out[k].ts % len = 0
               /\ \A i \in DOMAIN rows[d] :
                     Cardinality({k \in DOMAIN out :
                         /\ out[k].symbol = rows[d][i].symbol
                         /\ out[k].ts <= rows[d][i].ts
                         /\ rows[d][i].ts < out[k].ts + len}) = 1

\* C11: get_ticks returns exactly the stored ticks whose symbol is requested
\* and whose timestamp lies in [since, until), the range that ends at the time
\* of the query: none at or after that time, none of another symbol.
C11_QueryHalfOpenRange ==
    \A d \in Callers : Resampled(d) =>
        LET since == cutoff[d]
            until == cutoff[d] + args[d].minutes_back * 60000
        IN Range(rows[d]) =
              {ticks[i] : i \in {i \in DOMAIN ticks :
                  /\ ticks[i].symbol \in Range(args[d].symbols)
                  /\ since <= ticks[i].ts
                  /\ ticks[i].ts < until}}

\* a message that is a JSON object and a trade event, flat or under "data"
IsTradeMessage(message) ==
    /\ message.kind = "object"
    /\ \/ IsTrade(message.obj)
       \/ Has(message.obj, "data") /\ IsTrade(message.obj.data)

\* the handler of a task has run on a message, to its end
Handled(w) == args[w].op = "on_message" /\ result[w] # NoResult

\* C12: for every message the handler appends exactly one tick if the message
\* is a trade event, flat or nested, and otherwise appends nothing; it never
\* raises.
C12_TradeAppendsOnce ==
    \A w \in Tasks : Handled(w) =>
        /\ result[w].kind # "raise"
        /\ IsTradeMessage(args[w].message) => Len(result[w].new) = 1
        /\ ~IsTradeMessage(args[w].message) => result[w].new = <<>>

\* the object a handled trade message was normalized from
TradeObject(message) ==
    IF IsTrade(message.obj) THEN message.obj ELSE message.obj.data

\* C13: the timestamp of a normalized tick is the message's T whenever T is
\* present, whatever its value; else its E when E is present; else the clock's
\* reading.
C13_TimestampPrefersT ==
    \A w \in Tasks : (Handled(w) /\ result[w].kind = "insert") =>
        LET j == TradeObject(args[w].message)
            tick == result[w].new[1]
        IN tick.ts = IF Has(j, "T") THEN j.T
                     ELSE IF Has(j, "E") THEN j.E
                     ELSE args[w].clock

\* C14: per-symbol isolation.  A task that has ended holds neither the lock
\* nor uncommitted objects; while it is ended, a query still returns the ticks
\* appended before it started, every other task that waits to append gets the
\* lock, and every caller that waits to query gets it.
C14_OtherStreamsUnaffected ==
    /\ [](\A w \in Tasks : pc[w] = "closed" =>
            /\ db_lock # w /\ session[w] = <<>>
            /\ \A d \in Callers : pc[d] = "gt_close" =>
                  \A x \in seen[d] :
                      (x.symbol \in Range(args[d].symbols) /\ x.ts >= cutoff[d])
                          => \E k \in DOMAIN rows[d] : rows[d][k] = x)
    /\ \A w \in Tasks : \A u \in Tasks \ {w} :
          (pc[w] = "closed" /\ pc[u] = "it_lock") ~> (pc[u] = "it_commit")
    /\ \A w \in Tasks : \A d \in Callers :
          (pc[w] = "closed" /\ pc[d] = "gt_lock") ~> (pc[d] = "gt_query")

\* one task has ended, by a closed connection or a failed insert, and the
\* other task has committed a tick that a query has read
C14_Witness ==
    \E w \in Tasks : \E u \in Tasks \ {w} : \E d \in Callers :
        /\ pc[w] = "closed"
        /\ pc[u] = "it_lock"
        /\ pc[d] = "gt_close"
        /\ \E k \in DOMAIN rows[d] : rows[d][k].symbol = StreamSymbol(u)

\* a thread waits for _db_lock
Waiting(t) == pc[t] \in {"it_lock", "gt_lock", "pb_lock"}

\* C20: the lock is held only by a thread inside a critical section, never by
\* one whose operation has returned or raised, and never asked for by the
\* thread that holds it; under fair scheduling every thread that waits for the
\* lock gets it and its operation completes.
C20_LockReleasedNoDeadlock ==
    /\ [](\A t \in Threads : db_lock = t => InCritical(t))
    /\ [](\A t \in Threads : Waiting(t) => db_lock # t)
    /\ \A t \in Threads : Waiting(t) ~> (pc[t] \in {"idle", "closed"})

\* a database operation has raised inside a critical section, and afterwards
\* another thread holds the lock while a third waits for it
C20_Witness ==
    \E t \in Threads : \E u \in Threads \ {t} : \E v \in Threads \ {t, u} :
        /\ result[t] = Raised
        /\ db_lock = u
        /\ Waiting(v)

\* C15: hedge_ratio returns the sentinel exactly when the two series share
\* fewer than 10 aligned observations that are not missing; with 10 or more it
\* returns a finite number and does not raise.
C15_SentinelBelowTen ==
    \A d \in Callers : args[d].op = "hedge_ratio" =>
        LET n == Len(Aligned(args[d].px_x, args[d].px_y))
        IN /\ (n < 10) <=> (result[d].kind = "nan")
           /\ (n >= 10) => (result[d].kind = "float")

\* the timestamps at which a returned series has an entry, missing or not
Entries(series) == {series[i].ts : i \in DOMAIN series}

\* C16: the spread returned by spread_and_zscore has an entry exactly at the
\* timestamps present in both input series.
C16_SpreadOnInnerJoin ==
    \A d \in Callers : (args[d].op = "spread_and_zscore" /\ result[d].kind = "series") =>
        Entries(result[d].spread) = Index(args[d].px_x) \cap Index(args[d].px_y)

\* C17: two runs of resample over the same stored ticks, with the same
\* symbols, timeframe and range, return the same bar sequence, whatever order
\* the query returned the rows in and whatever calls ran in between; and a
\* run made now, on any access path, would return it again.
C17_BucketDeterminism ==
    \A d \in Callers : Resampled(d) =>
        /\ \A e \in Callers :
              (Resampled(e) /\ args[e] = args[d] /\ cutoff[e] = cutoff[d])
                  => result[e].bars = result[d].bars
        /\ \A plan \in Plans :
              result[d].bars =
                  ComputeBars(PlanOrder(QueryRows(ticks, args[d].symbols, cutoff[d]), plan),
                              args[d].symbols, args[d].timeframe)

\* both callers ran the same resample, the query gave them the rows in
\* different orders, two rows of one symbol fall in one bar at prices that
\* differ and out of timestamp order, and a call with another timeframe was
\* persisted between the two
C17_Witness ==
    /\ Resampled("d1") /\ Resampled("d2")
    /\ args["d1"] = args["d2"] /\ cutoff["d1"] = cutoff["d2"]
    /\ rows["d1"] # rows["d2"]
    /\ result["d1"].bars # <<>>
    /\ \E i, j \in DOMAIN ticks :
          /\ i < j /\ ticks[i].symbol = ticks[j].symbol
          /\ ticks[i].ts > ticks[j].ts /\ ticks[i].price # ticks[j].price
    /\ \E i, j, k \in DOMAIN bars :
          /\ i < j /\ j < k
          /\ bars[i].timeframe = args["d1"].timeframe
          /\ bars[j].timeframe # args["d1"].timeframe
          /\ bars[k].timeframe = args["d1"].timeframe

\* C18: within one symbol the query returns the ticks by ascending timestamp,
\* and in the order they were appended (the order of their ids).
C18_QueryOrderedWithinSymbol ==
    \A d \in Callers : Resampled(d) =>
        \A i, j \in DOMAIN rows[d] :
            (i < j /\ rows[d][i].symbol = rows[d][j].symbol) =>
                /\ rows[d][i].ts <= rows[d][j].ts
                /\ rows[d][i].id < rows[d][j].id

\* the threads an ingestor started for a symbol that have not ended
LiveTasks(ingestor, sym) ==
    {k \in DOMAIN spawned :
        spawned[k].ingestor = ingestor /\ spawned[k].sym = sym /\ spawned[k].alive}

\* C19: after stop() on the ingestor, every connection it opened is closed and
\* every task it started exits; and the ingestor never has two live tasks for
\* the same symbol, start() after stop() included.
C19_StopTerminates ==
    /\ \A ingestor \in Callers :
          (\E c \in Callers : args[c] # NoArgs /\ args[c].op = "stop"
                                 /\ args[c].self = ingestor)
              ~> (\A k \in DOMAIN spawned :
                    spawned[k].ingestor = ingestor =>
                        spawned[k].conn = "closed" /\ ~spawned[k].alive)
    /\ [](\A c \in Callers : \A sym \in {Lower(x) : x \in Range(AVAILABLE_SYMBOLS)} :
            Cardinality(LiveTasks(c, sym)) <= 1)

====
